---- MODULE Spec2Model ----
(***************************************************************************)
(* Secure-Email-Validator: the validation pipeline of                      *)
(* internal/checker/email_checker.go and its HTTP caller (main.go).        *)
(*                                                                         *)
(* A Go string is modelled as a sequence of one-character strings, so that *)
(* trimming, lower-casing, splitting and the regular expression are        *)
(* computed character by character.                                        *)
(***************************************************************************)
EXTENDS Integers, Sequences, FiniteSets, TLC

VARIABLES
    normRun,    \* <<A, normalizeEmail(A), normalizeEmail(normalizeEmail(A))>>, grown call by call
    fmtRun,     \* <<A>> and then <<A, isValidEmailFormat(A)>>
    mxRun,      \* <<DNS answer>> and then <<DNS answer, getPrimaryMXServer's return value>>
    inbox,      \* per request: the addresses it may carry (empty for a request that never arrives)
    pc,         \* per request: the statement of handleValidation / ValidateEmail it is at
    emailArg,   \* per request: the email query parameter, ValidateEmail's argument
    heapCfg,    \* the config.Config objects, by address
    heapRes,    \* the ValidationResult objects, by address
    ec,         \* per request: its EmailChecker, [config |-> address of its Config]
    result,     \* per request: the local variable result, the address of a ValidationResult
    cfg0,       \* per request: the Config value handleValidation constructed (history)
    calls,      \* per request: the stages run so far, in order (history)
    ans,        \* per request: what each probe answered (history)
    sock,       \* per request: the TCP connection of the STARTTLS probe: "none", "open", "closed"
    defers,     \* per request: the deferred calls of smtpSupportsSTARTTLS, last registered first
    ret,        \* per request: the value smtpSupportsSTARTTLS is returning
    smtpLog,    \* per request: the connection events of the probe, in order (history)
    stdout,     \* the diagnostics printed in verbose mode
    response    \* per request: the encoded response body

pureVars == <<normRun, fmtRun, mxRun>>
pipeVars == <<inbox, pc, emailArg, heapCfg, heapRes, ec, result, cfg0, calls, ans, sock, defers,
              ret, smtpLog, stdout, response>>
vars == <<pureVars, pipeVars>>

(***************************************************************************)
(* Bounds of the model                                                     *)
(***************************************************************************)
MaxBodyLen == 3     \* length of the freely chosen part of an address to normalise
MaxFmtLen == 5      \* length of the freely chosen addresses given to the format check
MaxRecs == 3        \* number of MX records in a DNS answer
MaxPref == 1        \* MX preference values are 0..MaxPref

(***************************************************************************)
(* Characters and strings                                                  *)
(***************************************************************************)
Upper == <<"A","B","C","D","E","F","G","H","I","J","K","L","M",
           "N","O","P","Q","R","S","T","U","V","W","X","Y","Z">>
Lower == <<"a","b","c","d","e","f","g","h","i","j","k","l","m",
           "n","o","p","q","r","s","t","u","v","w","x","y","z">>
Digits == {"0","1","2","3","4","5","6","7","8","9"}

Range(s) == {s[i] : i \in 1..Len(s)}

\* the characters unicode.IsSpace accepts among those the model uses
WhiteSpace == {" ", "\t", "\n", "\r"}

Rep(c, n) == [i \in 1..n |-> c]

\* all sequences over S of length 0..n
RECURSIVE SeqsUpTo(_, _)
SeqsUpTo(S, n) ==
    IF n = 0 THEN {<<>>}
    ELSE LET shorter == SeqsUpTo(S, n - 1)
         IN  shorter \cup {Append(s, c) : s \in {t \in shorter : Len(t) = n - 1}, c \in S}

\* strings.ToLower, on one character and on a string
ToLowerChar(c) ==
    IF \E i \in 1..Len(Upper) : Upper[i] = c
    THEN Lower[CHOOSE i \in 1..Len(Upper) : Upper[i] = c]
    ELSE c

ToLower(s) == [i \in 1..Len(s) |-> ToLowerChar(s[i])]

\* strings.TrimSpace: the slice from the first to the last character that is not
\* white space, the empty string when there is none
TrimSpace(s) ==
    LET inked == {i \in 1..Len(s) : s[i] \notin WhiteSpace}
    IN  IF inked = {} THEN <<>>
        ELSE SubSeq(s, CHOOSE i \in inked : \A j \in inked : i <= j,
                       CHOOSE i \in inked : \A j \in inked : i >= j)

\* strings.Index(s, c) for a one-character separator, 0-based, -1 when absent
Index(s, c) ==
    IF \E i \in 1..Len(s) : s[i] = c
    THEN (CHOOSE i \in 1..Len(s) : s[i] = c /\ \A j \in 1..(i - 1) : s[j] # c) - 1
    ELSE -1

\* strings.Split(s, c) for a one-character separator: with n separators, the n + 1
\* parts before, between and after them
Split(s, c) ==
    LET seps == {i \in 1..Len(s) : s[i] = c}
        n == Cardinality(seps)
        \* the position of the k-th separator; 0 and Len(s) + 1 stand at the two ends
        sep(k) == IF k = 0 THEN 0
                  ELSE IF k = n + 1 THEN Len(s) + 1
                  ELSE CHOOSE i \in seps : Cardinality({j \in seps : j < i}) = k - 1
    IN  [k \in 1..(n + 1) |-> SubSeq(s, sep(k - 1) + 1, sep(k) - 1)]

\* strings.ReplaceAll(s, c, ""): the characters of s other than c, in order
DeleteAll(s, c) ==
    LET keep(x) == x # c
    IN  SelectSeq(s, keep)

\* strings.HasSuffix(s, c) for a one-character suffix
HasSuffix(s, c) == s # <<>> /\ s[Len(s)] = c

GmailCom == <<"g","m","a","i","l",".","c","o","m">>
GooglemailCom == <<"g","o","o","g","l","e","m","a","i","l",".","c","o","m">>

(***************************************************************************)
(* normalizeEmail and extractDomain                                        *)
(***************************************************************************)
\* the Gmail branch of normalizeEmail without the truncation at '+'
GmailLocalKeepTag(local) == DeleteAll(local, ".")

\* the Gmail branch of normalizeEmail: delete the dots, then cut at the first '+'
\* (nodots, like email and parts below, is bound by a set constructor: its value is
\* then computed once, as the assignment in the code computes it)
GmailLocal(local) ==
    CHOOSE out \in {IF Index(nodots, "+") # -1
                    THEN SubSeq(nodots, 1, Index(nodots, "+"))
                    ELSE nodots : nodots \in {DeleteAll(local, ".")}} : TRUE

\* normalizeEmail after the split: email is the trimmed lower-cased address, parts
\* its split on '@'
NormalizeParts(email, parts) ==
    IF Len(parts) # 2 THEN email
    ELSE IF parts[2] = GmailCom \/ parts[2] = GooglemailCom
         THEN GmailLocal(parts[1]) \o <<"@">> \o GmailCom
         ELSE parts[1] \o <<"@">> \o parts[2]

normalizeEmail(e) ==
    LET trimmed == {TrimSpace(e)}
        lowered == {ToLower(t) : t \in trimmed}
        results == UNION {{NormalizeParts(email, parts) : parts \in {Split(email, "@")}} :
                             email \in lowered}
    IN  CHOOSE out \in results : TRUE

\* extractDomain after the split
DomainOfParts(parts) ==
    IF Len(parts) # 2 THEN <<>>
    ELSE CHOOSE out \in {ToLower(t) : t \in {TrimSpace(parts[2])}} : TRUE

extractDomain(email) ==
    CHOOSE out \in {DomainOfParts(parts) : parts \in {Split(email, "@")}} : TRUE

(***************************************************************************)
(* isValidEmailFormat: the regular expression, matched position by position *)
(***************************************************************************)
MaxLabelMiddle == 61    \* the {0,61} of the regular expression
MaxEmailLen == 254      \* len(email) <= 254

Alnum == Range(Upper) \cup Range(Lower) \cup Digits

\* the grave accent (U+0060), which a TLA+ string cannot hold, under a name of its own
Grave == "grave"

\* the local-part class of the regular expression: alphanumerics and . ! # $ % & ' * + / = ? ^ _ { | } ~ - and the grave accent
LocalClass == Alnum \cup {".","!","#","$","%","&","'","*","+","/","=","?","^","_",Grave,"{","|","}","~","-"}

\* [a-zA-Z0-9-]
AlnumHyphen == Alnum \cup {"-"}

\* the label with the hyphen allowed in its last position
LabelEndsHyphenLast(s, q) ==
    {e \in q..Len(s) :
        /\ s[q] \in Alnum
        /\ \/ e = q
           \/ /\ e - q - 1 <= MaxLabelMiddle
              /\ \A k \in (q + 1)..e : s[k] \in AlnumHyphen}

\* positions e at which [a-zA-Z0-9](?:[a-zA-Z0-9-]{0,61}[a-zA-Z0-9])? can end when it starts at q
LabelEnds(s, q) ==
    {e \in q..Len(s) :
        /\ s[q] \in Alnum
        /\ \/ e = q
           \/ /\ e - q - 1 <= MaxLabelMiddle
              /\ \A k \in (q + 1)..(e - 1) : s[k] \in AlnumHyphen
              /\ s[e] \in Alnum}

\* label(?:\.label)*$ starting at position q
RECURSIVE DomainMatch(_, _)
DomainMatch(s, q) ==
    \E e \in LabelEnds(s, q) :
        \/ e = Len(s)
        \/ /\ e + 1 <= Len(s)
           /\ s[e + 1] = "."
           /\ DomainMatch(s, e + 2)

\* ^local+@domain$
RegexMatch(s) ==
    \E p \in 1..Len(s) :
        /\ \A k \in 1..p : s[k] \in LocalClass
        /\ p + 1 <= Len(s)
        /\ s[p + 1] = "@"
        /\ DomainMatch(s, p + 2)

isValidEmailFormat(email) == RegexMatch(email) /\ Len(email) <= MaxEmailLen

(***************************************************************************)
(* getPrimaryMXServer                                                      *)
(*                                                                         *)
(* The answer of net.LookupMX is [err, recs]: an error flag and the        *)
(* records in the resolver's reported order, each [Host, Pref].  LookupMX  *)
(* may report an error together with the records it could validate.        *)
(***************************************************************************)
\* the loop's test with <= in place of <
PrefersOrEqual(mx, primaryMX) == mx.Pref <= primaryMX.Pref

\* mx.Pref < primaryMX.Pref
Prefers(mx, primaryMX) == mx.Pref < primaryMX.Pref

\* the for loop: primaryMX is the index of the record held so far, 0 for nil
RECURSIVE PrimaryLoop(_, _, _)
PrimaryLoop(mxRecords, i, primaryMX) ==
    IF i > Len(mxRecords) THEN primaryMX
    ELSE PrimaryLoop(mxRecords, i + 1,
                     IF primaryMX = 0 \/ Prefers(mxRecords[i], mxRecords[primaryMX])
                     THEN i ELSE primaryMX)

\* getPrimaryMXServer without the removal of the trailing dot
PrimaryWithDot(lookup) ==
    IF lookup.err \/ Len(lookup.recs) = 0 THEN <<>>
    ELSE lookup.recs[PrimaryLoop(lookup.recs, 1, 0)].Host

\* getPrimaryMXServer, given what its net.LookupMX call answered
getPrimaryMXServer(lookup) ==
    IF lookup.err \/ Len(lookup.recs) = 0 THEN <<>>
    ELSE LET primaryMX == PrimaryLoop(lookup.recs, 1, 0)
         IN  IF primaryMX # 0
             THEN LET host == lookup.recs[primaryMX].Host
                  IN  IF HasSuffix(host, ".") THEN SubSeq(host, 1, Len(host) - 1) ELSE host
             ELSE <<>>

\* hasMXRecord without the test of err
HasRecordsIgnoringErr(lookup) == Len(lookup.recs) > 0

\* hasMXRecord, given what its net.LookupMX call answered
hasMXRecord(lookup) == IF lookup.err THEN FALSE ELSE Len(lookup.recs) > 0

(***************************************************************************)
(* Inputs of the pure functions                                            *)
(***************************************************************************)
TeStTagGmail == <<"t","e",".","s","t","+","t","a","g","@","g","m","a","i","l",".","c","o","m">>
TeStTagGooglemail == <<"t","e",".","s","t","+","t","a","g","@","g","o","o","g","l","e","m","a","i","l",".","c","o","m">>
TestGmail == <<"t","e","s","t","@","g","m","a","i","l",".","c","o","m">>
ABCExample == <<"a",".","b","+","c","@","e","x","a","m","p","l","e",".","c","o","m">>
MixedCase == <<"T","e","s","t","@","E","x","a","m","p","l","e",".","C","o","m">>
AtGmail == <<"@","g","m","a","i","l",".","c","o","m">>
AtGooglemail == <<"@","g","o","o","g","l","e","m","a","i","l",".","c","o","m">>
AtGmailMixed == <<"@","G","M","a","i","l",".","C","o","m">>
AtBCo == <<"@","b",".","c","o">>
TestExampleCom == <<"t","e","s","t","@","e","x","a","m","p","l","e",".","c","o","m">>
UserNameDomainCoUk == <<"u","s","e","r",".","n","a","m","e","@","d","o","m","a","i","n",".","c","o",".","u","k">>
UserTagExampleOrg == <<"u","s","e","r","+","t","a","g","@","e","x","a","m","p","l","e",".","o","r","g">>
InvalidEmail == <<"i","n","v","a","l","i","d","-","e","m","a","i","l">>
AtExampleCom == <<"@","e","x","a","m","p","l","e",".","c","o","m">>
TestAt == <<"t","e","s","t","@">>
TestAtDotCom == <<"t","e","s","t","@",".","c","o","m">>
TestAtComDot == <<"t","e","s","t","@","c","o","m",".">>
UserNameXGmail == <<"U","s","e","r",".","N","a","m","e","+","x","@","g","m","a","i","l",".","c","o","m">>
UsernameGmail == <<"u","s","e","r","n","a","m","e","@","g","m","a","i","l",".","c","o","m">>
PlusXGmail == <<"+","x","@","g","m","a","i","l",".","c","o","m">>
ABCo == <<"a","@","b",".","c","o">>

\* addresses given to normalizeEmail: a freely chosen body, then one of the endings
\* (a Gmail-class domain, another domain, none), then optional trailing white space;
\* and the addresses of the test suite and of the documentation
NormAlphabet == {"a", "B", ".", "+", " ", "@"}
NormEndings == {<<>>, AtGmail, AtGooglemail, AtGmailMixed, AtBCo, GmailCom}
NormTrailers == {<<>>, <<"\t">>}
NormExamples == {TeStTagGmail, TeStTagGooglemail, TestGmail, ABCExample, MixedCase,
                 UserNameXGmail, TestExampleCom}
NormInputs ==
    {b \o e \o t : b \in SeqsUpTo(NormAlphabet, MaxBodyLen), e \in NormEndings, t \in NormTrailers}
        \cup NormExamples

\* addresses given to isValidEmailFormat: every short string over the alphabet, the
\* addresses of the test suite, and addresses at the length limits
FmtAlphabet == {"a", ".", "-", "@", "+", " ", "_"}
FmtExamples == {TestExampleCom, UserNameDomainCoUk, UserTagExampleOrg, InvalidEmail,
                AtExampleCom, TestAt, <<>>, TestAtDotCom, TestAtComDot, MixedCase,
                <<"a","@","1">>, <<"a","@","b","\n">>, <<"a","@","b",".">>, <<Grave,"@","b">>}
FmtLong ==
    {<<"a","@">> \o Rep("a", n) : n \in {MaxLabelMiddle + 1, MaxLabelMiddle + 2, MaxLabelMiddle + 3}}
        \cup {<<"a","@","a">> \o Rep("-", n) \o <<"a">> : n \in {MaxLabelMiddle, MaxLabelMiddle + 1}}
        \cup {<<"a","@","b",".">> \o Rep("a", n) \o <<".","c">> : n \in {MaxLabelMiddle + 2, MaxLabelMiddle + 3}}
        \cup {Rep("a", n) \o AtBCo : n \in {MaxEmailLen - 6, MaxEmailLen - 5, MaxEmailLen - 4}}
FmtInputs == SeqsUpTo(FmtAlphabet, MaxFmtLen) \cup FmtExamples \cup FmtLong

\* answers of net.LookupMX
MXHosts == {<<"a",".">>, <<"b">>, <<".">>, <<"c",".",".">>}
MXRecords == [Host : MXHosts, Pref : 0..MaxPref]
MXAnswers == [err : BOOLEAN, recs : SeqsUpTo(MXRecords, MaxRecs)]

(***************************************************************************)
(* hasDNSSEC                                                               *)
(*                                                                         *)
(* The answer of exec.Command("dig", ...).Output() is [err, out]: Output   *)
(* returns what dig printed also when dig exits with an error.             *)
(***************************************************************************)
\* strings.ToUpper
ToUpperChar(c) ==
    IF \E i \in 1..Len(Lower) : Lower[i] = c
    THEN Upper[CHOOSE i \in 1..Len(Lower) : Lower[i] = c]
    ELSE c

ToUpper(s) == [i \in 1..Len(s) |-> ToUpperChar(s[i])]

\* strings.Contains
Contains(s, sub) ==
    \E i \in 0..(Len(s) - Len(sub)) : SubSeq(s, i + 1, i + Len(sub)) = sub

RRSIG == <<"R","R","S","I","G">>

\* hasDNSSEC without the test of err
DNSSECIgnoringErr(dig) ==
    Contains(dig.out, RRSIG) \/ Contains(ToUpper(dig.out), RRSIG)

\* hasDNSSEC, given what the dig command answered
hasDNSSEC(dig) ==
    IF dig.err THEN FALSE
    ELSE Contains(dig.out, RRSIG) \/ Contains(ToUpper(dig.out), RRSIG)

(***************************************************************************)
(* The requests, their objects and the answers of the network              *)
(***************************************************************************)
Requests == {"r1", "r2"}

\* the nil pointer, an object not yet allocated or a value not yet produced, a probe
\* not yet asked (record-valued answers), a call not yet made (string-valued answers)
Nil == "nil"
Absent == [present |-> FALSE]
NotAsked == [asked |-> FALSE]
None == "none"

DefaultTimeout == 10    \* timeout := 10 in handleValidation, Timeout: 10 in DefaultConfig

DefaultConfig == [Timeout |-> DefaultTimeout, Verbose |-> FALSE]

\* the query parameters timeout and verbose, as handleValidation reads them
QueryConfigs == {[Timeout |-> DefaultTimeout, Verbose |-> FALSE], [Timeout |-> 5, Verbose |-> TRUE]}

\* one Config object serving every request
SharedConfigAddr(r) == "r1"

\* cfg := &config.Config{...}: a new object for each request
NewConfigAddr(r) == r

\* one ValidationResult object serving every call
SharedResultAddr(r) == "r1"

\* result := &ValidationResult{}: a new object for each call
NewResultAddr(r) == r

\* NewEmailChecker: the checker keeps the pointer it is given; nil gets the default
NewEmailChecker(cfgAddr) == [config |-> IF cfgAddr = Nil THEN "default" ELSE cfgAddr]

ZeroResult ==
    [Valid |-> FALSE, Reason |-> "", NormalizedEmail |-> <<>>, Domain |-> <<>>,
     HasMXRecord |-> FALSE, HasDNSSEC |-> FALSE, PrimaryMXServer |-> <<>>,
     SupportsSTARTTLS |-> FALSE]

NoAnswers ==
    [mx |-> NotAsked, dnssec |-> NotAsked, pmx |-> NotAsked, dial |-> NotAsked, client |-> None,
     ext |-> None, quit |-> None]

\* the email parameters of the requests
PipelineEmails == {<<>>, InvalidEmail, ABCo, UserNameXGmail, PlusXGmail}

\* what net.LookupMX may answer for a domain at the moment it is asked
LookupFailed == [err |-> TRUE, recs |-> <<>>]
NoRecords == [err |-> FALSE, recs |-> <<>>]
OneRecord == [err |-> FALSE, recs |-> <<[Host |-> <<"m","x",".">>, Pref |-> 10]>>]
NullMX == [err |-> FALSE, recs |-> <<[Host |-> <<".">>, Pref |-> 0]>>]
\* an error together with the records that could be validated
LookupPartial == [err |-> TRUE, recs |-> <<[Host |-> <<"m","x",".">>, Pref |-> 10]>>]
LookupAnswers == {LookupFailed, NoRecords, OneRecord, NullMX, LookupPartial}

\* what the dig command may answer
DigAnswers ==
    {[err |-> TRUE, out |-> RRSIG],
     [err |-> FALSE, out |-> <<"n","s",".">>],
     [err |-> FALSE, out |-> <<"S","O","A"," ">> \o RRSIG],
     [err |-> FALSE, out |-> <<"r","r","s","i","g">>]}

Config(r) == heapCfg[ec[r].config]
Result(r) == heapRes[result[r]]

\* fmt.Printf under ec.config.Verbose
Printf(r, line) == IF Config(r).Verbose THEN stdout \cup {line} ELSE stdout

(***************************************************************************)
(* handleValidation and ValidateEmail, one action per statement that       *)
(* blocks or decides                                                       *)
(***************************************************************************)
ReasonFormat == "Invalid email format"
ReasonMX == "Domain doesn't have MX record"
ReasonDNSSEC == "Domain doesn't support DNSSEC"
ReasonPrimary == "Failed to get MX server"
ReasonSTARTTLS == "SMTP server doesn't support STARTTLS"
ReasonValid == "Email is valid and domain supports secure mail delivery"

\* a stage that goes on to the next stage whatever it found
NoShortCircuit(passed, next) == next

\* if !passed { ...; return result }: the pipeline's early returns
Continue(passed, next) == IF passed THEN next ELSE "encode"

\* handleValidation up to the call of ValidateEmail, and the first statement of
\* ValidateEmail: the parameters are read, the Config and the checker are
\* constructed, the result is allocated
HandleValidation(r) ==
    /\ pc[r] = "idle"
    /\ \E e \in inbox[r], c \in QueryConfigs :
        /\ emailArg' = [emailArg EXCEPT ![r] = e]
        /\ IF e = <<>>
           THEN /\ pc' = [pc EXCEPT ![r] = "badrequest"]
                /\ UNCHANGED <<heapCfg, heapRes, ec, result, cfg0>>
           ELSE /\ pc' = [pc EXCEPT ![r] = "format"]
                /\ heapCfg' = [heapCfg EXCEPT ![NewConfigAddr(r)] = c]
                /\ ec' = [ec EXCEPT ![r] = NewEmailChecker(NewConfigAddr(r))]
                /\ cfg0' = [cfg0 EXCEPT ![r] = c]
                /\ result' = [result EXCEPT ![r] = NewResultAddr(r)]
                /\ heapRes' = [heapRes EXCEPT ![NewResultAddr(r)] = ZeroResult]
    /\ UNCHANGED <<inbox, calls, ans, sock, defers, ret, smtpLog, stdout, response, pureVars>>

\* the format check, and on success normalizeEmail and extractDomain
FormatCheck(r) ==
    /\ pc[r] = "format"
    /\ \E ok \in {isValidEmailFormat(emailArg[r])}, normalized \in {normalizeEmail(emailArg[r])} :
           /\ heapRes' = [heapRes EXCEPT ![result[r]] =
                  IF ok
                  THEN [@ EXCEPT !.NormalizedEmail = normalized,
                                 !.Domain = extractDomain(normalized)]
                  ELSE [@ EXCEPT !.Valid = FALSE, !.Reason = ReasonFormat,
                                 !.NormalizedEmail = emailArg[r]]]
           /\ calls' = [calls EXCEPT ![r] =
                  IF ok THEN @ \o <<"format", "normalize">> ELSE Append(@, "format")]
           /\ pc' = [pc EXCEPT ![r] = Continue(ok, "mx")]
    /\ UNCHANGED <<inbox, emailArg, heapCfg, ec, result, cfg0, ans, sock, defers, ret, smtpLog,
                   stdout, response, pureVars>>

\* result.HasMXRecord = ec.hasMXRecord(result.Domain)
MXCheck(r) ==
    /\ pc[r] = "mx"
    /\ \E lookup \in LookupAnswers :
        \E has \in {hasMXRecord(lookup)} :
            /\ ans' = [ans EXCEPT ![r].mx = lookup]
            /\ stdout' = IF lookup.err THEN Printf(r, "MX lookup failed") ELSE stdout
            /\ heapRes' = [heapRes EXCEPT ![result[r]] =
                   IF has THEN [@ EXCEPT !.HasMXRecord = has]
                   ELSE [@ EXCEPT !.HasMXRecord = has, !.Valid = FALSE, !.Reason = ReasonMX]]
            /\ pc' = [pc EXCEPT ![r] = Continue(has, "dnssec")]
    /\ calls' = [calls EXCEPT ![r] = Append(@, "mx")]
    /\ UNCHANGED <<inbox, emailArg, heapCfg, ec, result, cfg0, sock, defers, ret, smtpLog,
                   response, pureVars>>

\* result.HasDNSSEC = ec.hasDNSSEC(result.Domain)
DNSSECCheck(r) ==
    /\ pc[r] = "dnssec"
    /\ \E dig \in DigAnswers :
        \E has \in {hasDNSSEC(dig)} :
            /\ ans' = [ans EXCEPT ![r].dnssec = dig]
            /\ stdout' = IF dig.err THEN Printf(r, "DNSSEC check failed") ELSE stdout
            /\ heapRes' = [heapRes EXCEPT ![result[r]] =
                   IF has THEN [@ EXCEPT !.HasDNSSEC = has]
                   ELSE [@ EXCEPT !.HasDNSSEC = has, !.Valid = FALSE, !.Reason = ReasonDNSSEC]]
            /\ pc' = [pc EXCEPT ![r] = Continue(has, "pmx")]
    /\ calls' = [calls EXCEPT ![r] = Append(@, "dnssec")]
    /\ UNCHANGED <<inbox, emailArg, heapCfg, ec, result, cfg0, sock, defers, ret, smtpLog,
                   response, pureVars>>

\* result.PrimaryMXServer = ec.getPrimaryMXServer(result.Domain)
PrimaryMX(r) ==
    /\ pc[r] = "pmx"
    /\ \E lookup \in LookupAnswers :
        \E host \in {getPrimaryMXServer(lookup)} :
            /\ ans' = [ans EXCEPT ![r].pmx = lookup]
            /\ stdout' = IF lookup.err \/ Len(lookup.recs) = 0
                         THEN Printf(r, "Failed to get MX records") ELSE stdout
            /\ heapRes' = [heapRes EXCEPT ![result[r]] =
                   IF host # <<>> THEN [@ EXCEPT !.PrimaryMXServer = host]
                   ELSE [@ EXCEPT !.PrimaryMXServer = host, !.Valid = FALSE,
                                  !.Reason = ReasonPrimary]]
            /\ pc' = [pc EXCEPT ![r] = Continue(host # <<>>, "dial")]
    /\ calls' = [calls EXCEPT ![r] = Append(@, "pmx")]
    /\ UNCHANGED <<inbox, emailArg, heapCfg, ec, result, cfg0, sock, defers, ret, smtpLog,
                   response, pureVars>>

(***************************************************************************)
(* smtpSupportsSTARTTLS, one action per call on the connection, and the    *)
(* deferred calls run in reverse order of registration when it returns     *)
(***************************************************************************)
\* no deferred call registered after the dial
NoDeferredClose == <<>>

\* defer conn.Close()
DefersAfterDial == <<"close">>

\* defer client.Quit(), registered after conn.Close() and so run before it
DefersAfterNewClient == <<"quit", "close">>

\* net.DialTimeout("tcp", mxServer:25, timeout)
Dial(r) ==
    /\ pc[r] = "dial"
    /\ \E d \in {"refused", "connected"} :
        /\ ans' = [ans EXCEPT ![r].dial = [outcome |-> d, timeout |-> Config(r).Timeout]]
        /\ IF d = "refused"
           THEN /\ stdout' = Printf(r, "Failed to connect to SMTP server")
                /\ ret' = [ret EXCEPT ![r] = FALSE]
                /\ pc' = [pc EXCEPT ![r] = "unwind"]
                /\ UNCHANGED <<sock, defers, smtpLog>>
           ELSE /\ sock' = [sock EXCEPT ![r] = "open"]
                /\ defers' = [defers EXCEPT ![r] = DefersAfterDial]
                /\ smtpLog' = [smtpLog EXCEPT ![r] = Append(@, "dial")]
                /\ pc' = [pc EXCEPT ![r] = "newclient"]
                /\ UNCHANGED <<stdout, ret>>
    /\ calls' = [calls EXCEPT ![r] = Append(@, "starttls")]
    /\ UNCHANGED <<inbox, emailArg, heapCfg, heapRes, ec, result, cfg0, response, pureVars>>

\* smtp.NewClient(conn, mxServer): reads the server's greeting
NewClient(r) ==
    /\ pc[r] = "newclient"
    /\ \E c \in {"failed", "created"} :
        /\ ans' = [ans EXCEPT ![r].client = c]
        /\ IF c = "failed"
           THEN /\ stdout' = Printf(r, "Failed to create SMTP client")
                /\ ret' = [ret EXCEPT ![r] = FALSE]
                /\ pc' = [pc EXCEPT ![r] = "unwind"]
                /\ UNCHANGED defers
           ELSE /\ defers' = [defers EXCEPT ![r] = DefersAfterNewClient]
                /\ pc' = [pc EXCEPT ![r] = "extension"]
                /\ UNCHANGED <<stdout, ret>>
    /\ UNCHANGED <<inbox, emailArg, heapCfg, heapRes, ec, result, cfg0, calls, sock, smtpLog,
                   response, pureVars>>

\* ok, _ := client.Extension("STARTTLS"); return ok
Extension(r) ==
    /\ pc[r] = "extension"
    /\ \E x \in {"error", "absent", "present"} :
        /\ ans' = [ans EXCEPT ![r].ext = x]
        /\ ret' = [ret EXCEPT ![r] = (x = "present")]
    /\ pc' = [pc EXCEPT ![r] = "unwind"]
    /\ UNCHANGED <<inbox, emailArg, heapCfg, heapRes, ec, result, cfg0, calls, sock, defers,
                   smtpLog, stdout, response, pureVars>>

\* the next deferred call: client.Quit(), whose error is dropped and which closes
\* the connection itself when the server accepts the QUIT, or conn.Close()
RunDefer(r) ==
    /\ pc[r] = "unwind"
    /\ defers[r] # <<>>
    /\ IF Head(defers[r]) = "quit"
       THEN \E q \in {"failed", "ok"} :
               /\ ans' = [ans EXCEPT ![r].quit = q]
               /\ sock' = [sock EXCEPT ![r] = IF q = "ok" THEN "closed" ELSE @]
       ELSE /\ sock' = [sock EXCEPT ![r] = "closed"]
            /\ UNCHANGED ans
    /\ smtpLog' = [smtpLog EXCEPT ![r] = Append(@, Head(defers[r]))]
    /\ defers' = [defers EXCEPT ![r] = Tail(@)]
    /\ UNCHANGED <<inbox, pc, emailArg, heapCfg, heapRes, ec, result, cfg0, calls, ret, stdout,
                   response, pureVars>>

\* smtpSupportsSTARTTLS returns; result.SupportsSTARTTLS is set and the verdict given
StartTLSReturn(r) ==
    /\ pc[r] = "unwind"
    /\ defers[r] = <<>>
    /\ heapRes' = [heapRes EXCEPT ![result[r]] =
           IF ret[r]
           THEN [@ EXCEPT !.SupportsSTARTTLS = ret[r], !.Valid = TRUE, !.Reason = ReasonValid]
           ELSE [@ EXCEPT !.SupportsSTARTTLS = ret[r], !.Valid = FALSE,
                          !.Reason = ReasonSTARTTLS]]
    /\ pc' = [pc EXCEPT ![r] = "encode"]
    /\ UNCHANGED <<inbox, emailArg, heapCfg, ec, result, cfg0, calls, ans, sock, defers, ret,
                   smtpLog, stdout, response, pureVars>>

\* json.NewEncoder(w).Encode(result): the response is what result points to
Encode(r) ==
    /\ pc[r] = "encode"
    /\ response' = [response EXCEPT ![r] = Result(r)]
    /\ pc' = [pc EXCEPT ![r] = "done"]
    /\ UNCHANGED <<inbox, emailArg, heapCfg, heapRes, ec, result, cfg0, calls, ans, sock,
                   defers, ret, smtpLog, stdout, pureVars>>

\* the state before any request has arrived
PipeStart ==
    /\ pc = [r \in Requests |-> "idle"]
    /\ emailArg = [r \in Requests |-> <<>>]
    /\ heapCfg = [a \in Requests \cup {"default"} |-> IF a = "default" THEN DefaultConfig ELSE Absent]
    /\ heapRes = [a \in Requests |-> Absent]
    /\ ec = [r \in Requests |-> [config |-> Nil]]
    /\ result = [r \in Requests |-> Nil]
    /\ cfg0 = [r \in Requests |-> Absent]
    /\ calls = [r \in Requests |-> <<>>]
    /\ ans = [r \in Requests |-> NoAnswers]
    /\ sock = [r \in Requests |-> None]
    /\ defers = [r \in Requests |-> <<>>]
    /\ ret = [r \in Requests |-> FALSE]
    /\ smtpLog = [r \in Requests |-> <<>>]
    /\ stdout = {}
    /\ response = [r \in Requests |-> Absent]

PureIdle ==
    /\ normRun = <<>>
    /\ fmtRun = <<>>
    /\ mxRun = <<>>

Step(r) ==
    \/ HandleValidation(r)
    \/ FormatCheck(r)
    \/ MXCheck(r)
    \/ DNSSECCheck(r)
    \/ PrimaryMX(r)
    \/ Dial(r)
    \/ NewClient(r)
    \/ Extension(r)
    \/ RunDefer(r)
    \/ StartTLSReturn(r)
    \/ Encode(r)

Next == \E r \in Requests : Step(r)

\* one request, as from the command line or a single HTTP client
Init ==
    /\ PipeStart
    /\ PureIdle
    /\ inbox = [r \in Requests |-> IF r = "r1" THEN PipelineEmails ELSE {}]

Spec == Init /\ [][Next]_vars

\* two requests served concurrently by the HTTP server
ConcEmails == {InvalidEmail, ABCo, UserNameXGmail}

InitConc ==
    /\ PipeStart
    /\ PureIdle
    /\ inbox = [r \in Requests |-> ConcEmails]

SpecConc == InitConc /\ [][Next]_vars

(***************************************************************************)
(* The pure functions, each applied to an input chosen at the start        *)
(***************************************************************************)
InitNorm ==
    /\ normRun \in {<<a>> : a \in NormInputs}
    /\ fmtRun = <<>>
    /\ mxRun = <<>>
    /\ PipeStart
    /\ inbox = [r \in Requests |-> {}]

\* normalizeEmail applied to the last value: once to the input, once to its result
NormalizeCall ==
    /\ Len(normRun) \in {1, 2}
    /\ normRun' = Append(normRun, normalizeEmail(normRun[Len(normRun)]))
    /\ UNCHANGED <<fmtRun, mxRun, pipeVars>>

NextNorm == NormalizeCall

SpecNorm == InitNorm /\ [][NextNorm]_vars

InitFormat ==
    /\ fmtRun \in {<<a>> : a \in FmtInputs}
    /\ normRun = <<>>
    /\ mxRun = <<>>
    /\ PipeStart
    /\ inbox = [r \in Requests |-> {}]

FormatCall ==
    /\ Len(fmtRun) = 1
    /\ fmtRun' = Append(fmtRun, isValidEmailFormat(fmtRun[1]))
    /\ UNCHANGED <<normRun, mxRun, pipeVars>>

NextFormat == FormatCall

SpecFormat == InitFormat /\ [][NextFormat]_vars

InitMX ==
    /\ mxRun \in {<<a>> : a \in MXAnswers}
    /\ normRun = <<>>
    /\ fmtRun = <<>>
    /\ PipeStart
    /\ inbox = [r \in Requests |-> {}]

PrimaryMXCall ==
    /\ Len(mxRun) = 1
    /\ mxRun' = Append(mxRun, getPrimaryMXServer(mxRun[1]))
    /\ UNCHANGED <<normRun, fmtRun, pipeVars>>

NextMX == PrimaryMXCall

SpecMX == InitMX /\ [][NextMX]_vars

(***************************************************************************)
(* Claims about the pure functions                                         *)
(***************************************************************************)
\* C4: normalizeEmail is idempotent for all address strings, format-valid or not:
\* the second application returns what the first returned.
C4_NormalizeIdempotent ==
    Len(normRun) = 3 => normRun[3] = normRun[2]

\* the reference result of C5, computed character by character
RECURSIVE RefTrimLeft(_)
RefTrimLeft(s) ==
    IF s # <<>> /\ Head(s) \in WhiteSpace THEN RefTrimLeft(Tail(s)) ELSE s

RECURSIVE RefTrimRight(_)
RefTrimRight(s) ==
    IF s # <<>> /\ s[Len(s)] \in WhiteSpace
    THEN RefTrimRight(SubSeq(s, 1, Len(s) - 1))
    ELSE s

RefTrim(s) == RefTrimRight(RefTrimLeft(s))

RECURSIVE RefDropDots(_)
RefDropDots(s) ==
    IF s = <<>> THEN <<>>
    ELSE IF Head(s) = "." THEN RefDropDots(Tail(s))
    ELSE <<Head(s)>> \o RefDropDots(Tail(s))

\* the part of s before its first '+', all of s when it has none
RECURSIVE RefBeforePlus(_)
RefBeforePlus(s) ==
    IF s = <<>> \/ Head(s) = "+" THEN <<>>
    ELSE <<Head(s)>> \o RefBeforePlus(Tail(s))

RefNormalize(A) ==
    LET t == ToLower(RefTrim(A))
        ats == {i \in 1..Len(t) : t[i] = "@"}
    IN  IF Cardinality(ats) # 1 THEN t
        ELSE LET k == CHOOSE i \in ats : TRUE
                 local == SubSeq(t, 1, k - 1)
                 domain == SubSeq(t, k + 1, Len(t))
             IN  IF domain \in {GmailCom, GooglemailCom}
                 THEN RefBeforePlus(RefDropDots(local)) \o <<"@">> \o GmailCom
                 ELSE t

\* C5: for every address string A, normalizeEmail(A) equals the reference result
\* (trim, lower-case; with exactly one '@' and a Gmail-class domain delete the dots of
\* the local part, cut it at its first '+', set the domain to gmail.com; otherwise
\* the trimmed lower-cased string unchanged).
C5_NormalizeMatchesReference ==
    Len(normRun) >= 2 => normRun[2] = RefNormalize(normRun[1])

\* C5 witness: te.st+tag@googlemail.com has been normalised to test@gmail.com
C5_Witness ==
    /\ Len(normRun) >= 2
    /\ normRun[1] = TeStTagGooglemail
    /\ normRun[2] = TestGmail

\* the reference of C6: one '@', a non-empty local part of allowed characters, and
\* dot-separated labels of 1 to 63 alphanumerics or interior hyphens
RefLabelOK(l) ==
    /\ Len(l) >= 1
    /\ Len(l) <= 63
    /\ \A i \in 1..Len(l) : l[i] \in Alnum \cup {"-"}
    /\ l[1] # "-"
    /\ l[Len(l)] # "-"

\* the dot-separated labels of a domain, read from the left
RECURSIVE RefLabels(_)
RefLabels(d) ==
    IF \A i \in 1..Len(d) : d[i] # "." THEN <<d>>
    ELSE LET dot == CHOOSE i \in 1..Len(d) : d[i] = "." /\ \A j \in 1..(i - 1) : d[j] # "."
         IN  <<SubSeq(d, 1, dot - 1)>> \o RefLabels(SubSeq(d, dot + 1, Len(d)))

RefFormat(A) ==
    LET ats == {i \in 1..Len(A) : A[i] = "@"}
    IN  /\ Len(A) <= 254
        /\ Cardinality(ats) = 1
        /\ LET k == CHOOSE i \in ats : TRUE
               local == SubSeq(A, 1, k - 1)
               labels == RefLabels(SubSeq(A, k + 1, Len(A)))
           IN  /\ local # <<>>
               /\ \A i \in 1..Len(local) : local[i] \in LocalClass
               /\ \A i \in 1..Len(labels) : RefLabelOK(labels[i])

\* C6: isValidEmailFormat(A) is true if and only if A is at most 254 characters long
\* and is a non-empty local part of the allowed class, exactly one '@', and a domain
\* of dot-separated labels, each 1 to 63 characters, alphanumeric with interior hyphens.
C6_FormatMatchesReference ==
    Len(fmtRun) = 2 => (fmtRun[2] <=> RefFormat(fmtRun[1]))

\* C6 witness: user.name@domain.co.uk has been accepted
C6_Witness ==
    /\ Len(fmtRun) = 2
    /\ fmtRun[1] = UserNameDomainCoUk
    /\ fmtRun[2] = TRUE

\* the reference of C9: the first record, in the reported order, of minimum preference
RefPrimary(lookup) ==
    IF lookup.err \/ lookup.recs = <<>> THEN <<>>
    ELSE LET recs == lookup.recs
             least == {i \in 1..Len(recs) : \A j \in 1..Len(recs) : recs[i].Pref <= recs[j].Pref}
             first == CHOOSE i \in least : \A j \in least : i <= j
             host == recs[first].Host
         IN  IF host # <<>> /\ host[Len(host)] = "."
             THEN [i \in 1..(Len(host) - 1) |-> host[i]]
             ELSE host

\* C9: getPrimaryMXServer returns the host of the record of minimum preference, the
\* first of them in the resolver's order on a tie, with a trailing '.' removed, and the
\* empty string when the lookup fails or returns no records.
C9_PrimaryIsFirstMinimum ==
    Len(mxRun) = 2 => mxRun[2] = RefPrimary(mxRun[1])

\* C9 witness: of three records, two tie on the minimum preference and the earlier
\* one, "a.", is returned as "a"
C9_Witness ==
    /\ Len(mxRun) = 2
    /\ mxRun[1] = [err |-> FALSE,
                   recs |-> << [Host |-> <<"b">>, Pref |-> 1],
                               [Host |-> <<"a",".">>, Pref |-> 0],
                               [Host |-> <<"b">>, Pref |-> 0] >>]
    /\ mxRun[2] = <<"a">>

(***************************************************************************)
(* Claims about the pipeline                                               *)
(***************************************************************************)
StageOrder == <<"format", "normalize", "mx", "dnssec", "pmx", "starttls">>

IsPrefix(s, t) == Len(s) <= Len(t) /\ \A i \in 1..Len(s) : s[i] = t[i]

Ran(r, stage) == stage \in Range(calls[r])

Returned(r) == pc[r] \in {"encode", "done"}

\* the outcome of each stage, read off the input and the answers of the network
FormatPassed(e) == isValidEmailFormat(e)
MXPassed(a) == a.mx # NotAsked /\ ~a.mx.err /\ a.mx.recs # <<>>
MarkerIn(out) == Contains(ToLower(out), <<"r","r","s","i","g">>)
DNSSECPassed(a) == a.dnssec # NotAsked /\ ~a.dnssec.err /\ MarkerIn(a.dnssec.out)
PrimaryPassed(a) == a.pmx # NotAsked /\ RefPrimary(a.pmx) # <<>>
STARTTLSPassed(a) == a.ext = "present"

AllPassed(e, a) ==
    FormatPassed(e) /\ MXPassed(a) /\ DNSSECPassed(a) /\ PrimaryPassed(a) /\ STARTTLSPassed(a)

FirstFailure(e, a) ==
    IF ~FormatPassed(e) THEN "Invalid email format"
    ELSE IF ~MXPassed(a) THEN "Domain doesn't have MX record"
    ELSE IF ~DNSSECPassed(a) THEN "Domain doesn't support DNSSEC"
    ELSE IF ~PrimaryPassed(a) THEN "Failed to get MX server"
    ELSE "SMTP server doesn't support STARTTLS"

\* C1: the stages run in the fixed order format, normalize/extract, MX, DNSSEC,
\* primary MX, STARTTLS, none of them twice; a network probe is started only if the
\* format check and every earlier stage passed; an address of invalid format causes no
\* network call, a domain without MX records neither the DNSSEC nor the STARTTLS probe.
C1_StagesInOrder ==
    \A r \in Requests :
        /\ IsPrefix(calls[r], StageOrder)
        /\ Ran(r, "mx") <=> ans[r].mx # NotAsked
        /\ Ran(r, "dnssec") <=> ans[r].dnssec # NotAsked
        /\ Ran(r, "pmx") <=> ans[r].pmx # NotAsked
        /\ Ran(r, "starttls") <=> ans[r].dial # NotAsked
        /\ Ran(r, "mx") => FormatPassed(emailArg[r])
        /\ Ran(r, "dnssec") => FormatPassed(emailArg[r]) /\ MXPassed(ans[r])
        /\ Ran(r, "pmx") => FormatPassed(emailArg[r]) /\ MXPassed(ans[r]) /\ DNSSECPassed(ans[r])
        /\ Ran(r, "starttls") =>
               /\ FormatPassed(emailArg[r]) /\ MXPassed(ans[r])
               /\ DNSSECPassed(ans[r]) /\ PrimaryPassed(ans[r])
        /\ (pc[r] # "idle" /\ ~FormatPassed(emailArg[r])) => ans[r] = NoAnswers
        /\ (ans[r].mx # NotAsked /\ ~MXPassed(ans[r])) =>
               ans[r].dnssec = NotAsked /\ ans[r].dial = NotAsked

\* C1 witness: a request has run all six stages and returned
C1_Witness ==
    \E r \in Requests : Returned(r) /\ calls[r] = StageOrder

\* C2: a returned result has Valid = true exactly when all five checks passed, and
\* then the success reason; otherwise Valid = false and the reason of the first
\* failing stage; Valid = true never goes with a false or empty evidence field, and
\* no reason is empty.
C2_VerdictMatchesStages ==
    \A r \in Requests :
        Returned(r) =>
            LET R == Result(r)
            IN  /\ R.Valid <=> AllPassed(emailArg[r], ans[r])
                /\ R.Valid =>
                       R.Reason = "Email is valid and domain supports secure mail delivery"
                /\ ~R.Valid => R.Reason = FirstFailure(emailArg[r], ans[r])
                /\ R.Valid =>
                       /\ R.HasMXRecord /\ R.HasDNSSEC /\ R.SupportsSTARTTLS
                       /\ R.PrimaryMXServer # <<>>
                /\ R.Reason # ""

\* C2 witness: a request for User.Name+x@gmail.com has returned Valid = true
C2_Witness ==
    \E r \in Requests :
        /\ pc[r] = "done" /\ emailArg[r] = UserNameXGmail
        /\ response[r].Valid /\ response[r].NormalizedEmail = UsernameGmail

\* C3: in a returned result the evidence field of each stage that was reached holds
\* that stage's outcome, also for the failing stage, and the field of each stage never
\* reached holds its zero value; after a failed format check Domain is empty too.
C3_EvidenceFields ==
    \A r \in Requests :
        Returned(r) =>
            LET R == Result(r)
            IN  /\ R.HasMXRecord = (Ran(r, "mx") /\ MXPassed(ans[r]))
                /\ R.HasDNSSEC = (Ran(r, "dnssec") /\ DNSSECPassed(ans[r]))
                /\ R.PrimaryMXServer = IF Ran(r, "pmx") THEN RefPrimary(ans[r].pmx) ELSE <<>>
                /\ R.SupportsSTARTTLS = (Ran(r, "starttls") /\ STARTTLSPassed(ans[r]))
                /\ ~FormatPassed(emailArg[r]) =>
                       /\ R.Domain = <<>>
                       /\ ~R.HasMXRecord /\ ~R.HasDNSSEC /\ ~R.SupportsSTARTTLS
                       /\ R.PrimaryMXServer = <<>>

\* C3 witness: a request has failed at the DNSSEC stage with HasMXRecord = true and
\* the later fields at their zero values
C3_Witness ==
    \E r \in Requests :
        /\ pc[r] = "done"
        /\ calls[r] = <<"format", "normalize", "mx", "dnssec">>
        /\ response[r].HasMXRecord /\ ~response[r].HasDNSSEC
        /\ response[r].PrimaryMXServer = <<>> /\ ~response[r].SupportsSTARTTLS

Opened(r) == ans[r].dial # NotAsked /\ ans[r].dial.outcome = "connected"

\* position of an event in the connection log, 0 when absent
At(log, ev) == IF \E i \in 1..Len(log) : log[i] = ev
               THEN CHOOSE i \in 1..Len(log) : log[i] = ev
               ELSE 0

\* C7 as stated: once the connection has been opened it is closed before the probe
\* returns on every exit path, and the quit sequence is issued before the socket is
\* closed.
C7_QuitThenCloseOnEveryPath ==
    \A r \in Requests :
        (Returned(r) /\ Opened(r)) =>
            /\ sock[r] = "closed"
            /\ At(smtpLog[r], "quit") > 0
            /\ At(smtpLog[r], "quit") < At(smtpLog[r], "close")

\* C7 amended: once the connection has been opened it is closed by conn.Close()
\* before the probe returns on every exit path, and no probe returns with its socket
\* open; on the paths where the SMTP client was created client.Quit() is called before
\* conn.Close(), and the outcome of Quit does not change the returned boolean; when
\* the creation of the client fails the socket is closed without any quit.
C7_ClosedOnEveryPath ==
    \A r \in Requests :
        /\ Returned(r) => sock[r] # "open"
        /\ (Returned(r) /\ Opened(r)) =>
               /\ sock[r] = "closed"
               /\ At(smtpLog[r], "close") > 0
               /\ ans[r].client = "created" =>
                      /\ At(smtpLog[r], "quit") > 0
                      /\ At(smtpLog[r], "quit") < At(smtpLog[r], "close")
                      /\ Result(r).SupportsSTARTTLS = (ans[r].ext = "present")
               /\ ans[r].client = "failed" =>
                      /\ At(smtpLog[r], "quit") = 0
                      /\ ~Result(r).SupportsSTARTTLS

\* C7 witness: the probe has returned true after the server advertised STARTTLS and
\* the quit failed; the socket is closed
C7_Witness ==
    \E r \in Requests :
        /\ Returned(r) /\ Opened(r)
        /\ ans[r].ext = "present" /\ ans[r].quit = "failed"
        /\ smtpLog[r] = <<"dial", "quit", "close">>
        /\ sock[r] = "closed"
        /\ Result(r).SupportsSTARTTLS

\* what the result may depend on, by C8: a failed probe counts as the feature absent
CollapseLookup(l) == IF l = NotAsked THEN NotAsked ELSE IF l.err THEN NoRecords ELSE l
CollapseDig(d) ==
    IF d = NotAsked THEN NotAsked
    ELSE IF d.err \/ ~MarkerIn(d.out) THEN [err |-> FALSE, out |-> <<>>] ELSE d
CollapseTLS(a) ==
    IF a.dial = NotAsked THEN None ELSE IF a.ext = "present" THEN "present" ELSE "absent"
\* the collapsed answers up to the first stage that finds its feature absent
Collapse(a) ==
    LET mx == CollapseLookup(a.mx)
        mxThere == mx # NotAsked /\ mx.recs # <<>>
        dig == IF mxThere THEN CollapseDig(a.dnssec) ELSE NotAsked
        digThere == dig # NotAsked /\ MarkerIn(dig.out)
        pmx == IF digThere THEN CollapseLookup(a.pmx) ELSE NotAsked
        pmxThere == pmx # NotAsked /\ RefPrimary(pmx) # <<>>
    IN  [mx |-> mx, dnssec |-> dig, pmx |-> pmx,
         tls |-> IF pmxThere THEN CollapseTLS(a) ELSE None]

\* C8: a probe that fails to execute gives the same result as one that reports the
\* feature absent (MX lookup error as an empty answer, dig error as output without
\* RRSIG, SMTP connect or handshake failure as STARTTLS not advertised), whatever the
\* Verbose flag; and every invocation goes on until it has returned a result.
C8_FailureIsAbsence ==
    /\ \A r1, r2 \in Requests :
           (/\ pc[r1] = "done" /\ pc[r2] = "done"
            /\ emailArg[r1] = emailArg[r2]
            /\ Collapse(ans[r1]) = Collapse(ans[r2]))
               => response[r1] = response[r2]
    /\ \A r \in Requests :
           pc[r] \notin {"idle", "badrequest", "done"} => ENABLED Step(r)
    /\ \A r \in Requests : pc[r] = "done" => response[r] # Absent

\* C8 witness: for the same address one request met a failed MX lookup and the other
\* an empty answer, under different Verbose flags, and both got the same response
C8_Witness ==
    /\ pc["r1"] = "done" /\ pc["r2"] = "done"
    /\ emailArg["r1"] = emailArg["r2"]
    /\ ans["r1"].mx = LookupFailed /\ ans["r2"].mx = NoRecords
    /\ cfg0["r1"].Verbose /\ ~cfg0["r2"].Verbose
    /\ response["r1"] = response["r2"]
    /\ response["r1"].Reason = "Domain doesn't have MX record"

\* the result of an invocation that runs alone on input e with the answers a
SoloResult(e, a) ==
    LET f == FormatPassed(e)
        n == normalizeEmail(e)
    IN  [Valid |-> AllPassed(e, a),
         Reason |-> IF AllPassed(e, a)
                    THEN "Email is valid and domain supports secure mail delivery"
                    ELSE FirstFailure(e, a),
         NormalizedEmail |-> IF f THEN n ELSE e,
         Domain |-> IF f THEN extractDomain(n) ELSE <<>>,
         HasMXRecord |-> f /\ MXPassed(a),
         HasDNSSEC |-> f /\ MXPassed(a) /\ DNSSECPassed(a),
         PrimaryMXServer |-> IF f /\ MXPassed(a) /\ DNSSECPassed(a)
                             THEN RefPrimary(a.pmx) ELSE <<>>,
         SupportsSTARTTLS |-> AllPassed(e, a)]

Started(r) == pc[r] \notin {"idle", "badrequest"}

\* no step of another request touches what request r owns
Untouched(r) ==
    (Started(r) /\ pc'[r] = pc[r] /\ defers'[r] = defers[r]) =>
        /\ result'[r] = result[r]
        /\ ec'[r] = ec[r]
        /\ heapRes'[result[r]] = heapRes[result[r]]
        /\ heapCfg'[ec[r].config] = heapCfg[ec[r].config]
        /\ response'[r] = response[r]

\* C10: concurrent invocations are independent: each owns its result and its
\* configuration, no step of one changes what another owns, under every interleaving
\* the response of an invocation is the one of a run alone on the same input with the
\* same probe answers, and no stage modifies the configuration.
C10_Independent ==
    /\ [](\A r \in Requests :
            /\ Started(r) => Config(r) = cfg0[r]
            /\ pc[r] = "done" => response[r] = SoloResult(emailArg[r], ans[r])
            /\ \A q \in Requests \ {r} :
                   (Started(r) /\ Started(q)) =>
                       result[r] # result[q] /\ ec[r].config # ec[q].config)
    /\ [][\A r \in Requests : Untouched(r)]_vars

\* C10 witness: two invocations under different configurations have both finished
\* ValidateEmail before either response was encoded, one valid and one not
C10_Witness ==
    /\ pc["r1"] = "encode" /\ pc["r2"] = "encode"
    /\ cfg0["r1"] # cfg0["r2"]
    /\ Result("r1").Valid /\ ~Result("r2").Valid

(***************************************************************************)
(* The two lookups of the MX records within one ValidateEmail              *)
(***************************************************************************)
\* C11: within one invocation the MX existence check and the primary-MX selection
\* observe the same DNS answer: a returned result with HasMXRecord = true and
\* HasDNSSEC = true has as PrimaryMXServer the minimum-preference host of the record
\* set that made HasMXRecord true, and "Failed to get MX server" is not caused by
\* the answer changing or the lookup failing between the two stages.
C11_SameAnswerForBothLookups ==
    \A r \in Requests :
        (Returned(r) /\ Result(r).HasMXRecord /\ Result(r).HasDNSSEC) =>
            /\ ans[r].pmx = ans[r].mx
            /\ Result(r).PrimaryMXServer = RefPrimary(ans[r].mx)
            /\ Result(r).Reason = ReasonPrimary => RefPrimary(ans[r].mx) = <<>>

(***************************************************************************)
(* The normalized address and the domain stored in the result              *)
(***************************************************************************)
\* the positions of "@" in an address
AtPositions(s) == {i \in 1..Len(s) : s[i] = "@"}

\* the part of an address after its first "@"
AfterAt(s) ==
    LET at == CHOOSE i \in AtPositions(s) : \A j \in AtPositions(s) : i <= j
    IN  [k \in 1..(Len(s) - at) |-> s[at + k]]

\* C12: in every result whose format check passed, whatever later stage fails and
\* also when Valid = true, NormalizedEmail is itself a format-valid address (non-empty
\* local part, exactly one "@"), and Domain is non-empty and equal to the part of
\* NormalizedEmail after its "@".
C12_NormalizedIsFormatValid ==
    \A r \in Requests :
        (Returned(r) /\ FormatPassed(emailArg[r])) =>
            LET R == Result(r)
            IN  /\ Cardinality(AtPositions(R.NormalizedEmail)) = 1
                /\ R.NormalizedEmail[1] # "@"
                /\ isValidEmailFormat(R.NormalizedEmail)
                /\ R.Domain # <<>>
                /\ R.Domain = AfterAt(R.NormalizedEmail)

====
